---- MODULE Spec2Model ----
(***************************************************************************)
(* reflcompare: Comparisons (a registry of comparison functions keyed by   *)
(* type) and DeepCompare, the recursive three-way comparison of two values *)
(* through reflection (src/reflcompare.go).                                *)
(*                                                                         *)
(* Go values live in a word-addressed memory Mem; a reflect.Value is a     *)
(* typed reference into it together with reflect's flags (addressable,     *)
(* obtained through an unexported field).  deepValueCompare's recursion is *)
(* an explicit stack of frames; every action is one step of the frame on   *)
(* top of the stack.                                                       *)
(***************************************************************************)
EXTENDS Integers, Sequences, FiniteSets, TLC

VARIABLES registry, phase, call, stack, visited, pnc, out, first

vars == <<registry, phase, call, stack, visited, pnc, out, first>>

(***************************************************************************)
(* Bounds                                                                  *)
(***************************************************************************)
\* int values 0..MaxInt exist as top-level arguments
MaxInt == 2
\* AddFuncs is called with at most MaxFuncs functions
MaxFuncs == 2
\* goroutine stack: deepValueCompare frames before the runtime's fatal
\* "stack overflow" (every acyclic value of Inputs needs fewer frames)
MaxDepth == 8

(***************************************************************************)
(* Types (reflect.Type): kind, element type, array length, struct fields   *)
(***************************************************************************)
NoFields == <<>>

Scalar(k) == [kind |-> k, elem |-> "", len |-> 0, fields |-> NoFields]

Composite(k, e, n) == [kind |-> k, elem |-> e, len |-> n, fields |-> NoFields]

Fld(n, t, e) == [name |-> n, typ |-> t, exported |-> e]

\* type Node struct { Val int; Next *Node }
\* type Priv struct { A int; b int; c complex128 }
TypeTab ==
    [ t \in {"int", "bool", "complex128", "func()", "interface{}", "*interface{}",
             "Node", "*Node", "[2]*Node", "[2]int", "[]int", "*[]int",
             "map[int]int", "Priv", "*Priv"} |->
        CASE t = "int"          -> Scalar("Int")
          [] t = "bool"         -> Scalar("Bool")
          [] t = "complex128"   -> Scalar("Complex128")
          [] t = "func()"       -> Scalar("Func")
          [] t = "interface{}"  -> Scalar("Interface")
          [] t = "*interface{}" -> Composite("Ptr", "interface{}", 0)
          [] t = "Node"         -> [kind |-> "Struct", elem |-> "", len |-> 0,
                                    fields |-> << Fld("Val", "int", TRUE),
                                                  Fld("Next", "*Node", TRUE) >>]
          [] t = "*Node"        -> Composite("Ptr", "Node", 0)
          [] t = "[2]*Node"     -> Composite("Array", "*Node", 2)
          [] t = "[2]int"       -> Composite("Array", "int", 2)
          [] t = "[]int"        -> Composite("Slice", "int", 0)
          [] t = "*[]int"       -> Composite("Ptr", "[]int", 0)
          [] t = "map[int]int"  -> Composite("Map", "int", 0)
          [] t = "Priv"         -> [kind |-> "Struct", elem |-> "", len |-> 0,
                                    fields |-> << Fld("A", "int", TRUE),
                                                  Fld("b", "int", FALSE),
                                                  Fld("c", "complex128", FALSE) >>]
          [] t = "*Priv"        -> Composite("Ptr", "Priv", 0) ]

\* dynamic type word of an interface value: 0 is the nil interface
DynTypes == << "int", "bool", "*interface{}" >>

RECURSIVE SizeOf(_)
\* words a value of type t occupies
SizeOf(t) ==
    LET ti == TypeTab[t] IN
    CASE ti.kind = "Struct" ->
           LET RECURSIVE Sum(_)
               Sum(i) == IF i = 0 THEN 0 ELSE Sum(i - 1) + SizeOf(ti.fields[i].typ)
           IN Sum(Len(ti.fields))
      [] ti.kind = "Array"     -> ti.len * SizeOf(ti.elem)
      [] ti.kind = "Slice"     -> 2
      [] ti.kind = "Interface" -> 2
      [] OTHER                 -> 1

\* word offset of field i (1-based) of struct type t
FieldOffset(t, i) ==
    LET fs == TypeTab[t].fields
        RECURSIVE Off(_)
        Off(j) == IF j = 0 THEN 0 ELSE Off(j - 1) + SizeOf(fs[j].typ)
    IN Off(i - 1)

(***************************************************************************)
(* Memory: the values the arguments of DeepCompare are built from          *)
(***************************************************************************)
Mem ==
    \* int 0..MaxInt at 10..
    [l \in 10..(10 + MaxInt) |-> l - 10]
    \* bool false, true
    @@ (20 :> 0) @@ (21 :> 1)
    \* complex128: two distinct numbers
    @@ (30 :> 0) @@ (31 :> 1)
    \* func(): nil, and two function literals
    @@ (40 :> 0) @@ (41 :> 1) @@ (42 :> 2)
    \* Node{Val, Next}: 100 and 102 point to themselves, 104 and 106 are
    \* equal and end the list, 108 precedes 104
    @@ (100 :> 1) @@ (101 :> 100)
    @@ (102 :> 1) @@ (103 :> 102)
    @@ (104 :> 0) @@ (105 :> 0)
    @@ (106 :> 0) @@ (107 :> 0)
    @@ (108 :> 2) @@ (109 :> 104)
    \* *Node: pointers to the five nodes, and nil
    @@ (120 :> 100) @@ (121 :> 102) @@ (122 :> 104) @@ (123 :> 106)
    @@ (124 :> 108) @@ (125 :> 0)
    \* Node values (copies held in an interface)
    @@ (130 :> 1) @@ (131 :> 100)
    @@ (132 :> 0) @@ (133 :> 0)
    @@ (134 :> 2) @@ (135 :> 104)
    \* [2]*Node
    @@ (140 :> 104) @@ (141 :> 104)
    @@ (142 :> 106) @@ (143 :> 106)
    @@ (144 :> 104) @@ (145 :> 106)
    @@ (146 :> 106) @@ (147 :> 104)
    \* [2]int: {1,2} {1,1} {2,0}
    @@ (150 :> 1) @@ (151 :> 2)
    @@ (152 :> 1) @@ (153 :> 1)
    @@ (154 :> 2) @@ (155 :> 0)
    \* backing arrays of slices: {1,2} {1,2} {1,1}
    @@ (200 :> 1) @@ (201 :> 2)
    @@ (202 :> 1) @@ (203 :> 2)
    @@ (204 :> 1) @@ (205 :> 1)
    \* []int headers {data, len}: nil, empty, three of length 2, one of length 1
    @@ (210 :> 0)   @@ (211 :> 0)
    @@ (212 :> 200) @@ (213 :> 0)
    @@ (214 :> 200) @@ (215 :> 2)
    @@ (216 :> 202) @@ (217 :> 2)
    @@ (218 :> 204) @@ (219 :> 2)
    @@ (220 :> 200) @@ (221 :> 1)
    \* map[int]int headers: nil and the maps 1..7 of MapTab
    @@ (230 :> 0) @@ (231 :> 1) @@ (232 :> 2) @@ (233 :> 3) @@ (234 :> 4)
    @@ (235 :> 5) @@ (236 :> 6) @@ (237 :> 7)
    \* *[]int: pointers to slice headers
    @@ (240 :> 214) @@ (241 :> 216) @@ (242 :> 210)
    \* Priv{A, b, c}
    @@ (300 :> 1) @@ (301 :> 1) @@ (302 :> 0)
    @@ (303 :> 1) @@ (304 :> 2) @@ (305 :> 0)
    @@ (306 :> 1) @@ (307 :> 1) @@ (308 :> 0)
    \* *Priv
    @@ (310 :> 300) @@ (311 :> 303) @@ (312 :> 306)
    \* interface{} {dynamic type, data}: nil, int 1, int 2, bool true, and one
    \* holding the pointer 420 to itself
    @@ (400 :> 0) @@ (401 :> 0)
    @@ (402 :> 1) @@ (403 :> 11)
    @@ (404 :> 1) @@ (405 :> 12)
    @@ (406 :> 2) @@ (407 :> 21)
    @@ (408 :> 3) @@ (409 :> 420)
    \* *interface{}
    @@ (410 :> 400) @@ (411 :> 402) @@ (412 :> 404) @@ (413 :> 406)
    @@ (420 :> 408)

\* the maps: key |-> location of the value
\* 1 {1:1}  2 {1:1}  3 {2:1}  4 {1:1, 2:2}  5 {}  6 {1:2}  7 {1:2, 2:1}
MapTab ==
    << (1 :> 11), (1 :> 11), (2 :> 11), (1 :> 11) @@ (2 :> 12), << >>,
       (1 :> 12), (1 :> 12) @@ (2 :> 11) >>

\* an interface{} argument: nil, or a dynamic type and the location of the data
Nil == [typ |-> "nil", loc |-> 0]

Boxed(t, l) == [typ |-> t, loc |-> l]

Inputs ==
    {Nil}
    \cup {Boxed("int", l) : l \in 10..(10 + MaxInt)}
    \cup {Boxed("bool", l) : l \in {20, 21}}
    \cup {Boxed("complex128", l) : l \in {30, 31}}
    \cup {Boxed("func()", l) : l \in {40, 41, 42}}
    \cup {Boxed("*Node", l) : l \in 120..125}
    \cup {Boxed("Node", l) : l \in {130, 132, 134}}
    \cup {Boxed("[2]*Node", l) : l \in {140, 142, 144, 146}}
    \cup {Boxed("[2]int", l) : l \in {150, 152, 154}}
    \cup {Boxed("[]int", l) : l \in {210, 212, 214, 216, 218, 220}}
    \cup {Boxed("map[int]int", l) : l \in 230..237}
    \cup {Boxed("*[]int", l) : l \in {240, 241, 242}}
    \cup {Boxed("Priv", l) : l \in {300, 303}}
    \cup {Boxed("*Priv", l) : l \in {310, 311, 312}}
    \cup {Boxed("*interface{}", l) : l \in {410, 411, 412, 413, 420}}

(***************************************************************************)
(* reflect.Value: a typed reference, CanAddr (addr) and the read-only flag *)
(* of a value obtained through an unexported field (ro)                    *)
(***************************************************************************)
Invalid == [valid |-> FALSE, typ |-> "", loc |-> 0, addr |-> FALSE, ro |-> FALSE]

Val(t, l, a, r) == [valid |-> TRUE, typ |-> t, loc |-> l, addr |-> a, ro |-> r]

\* reflect.ValueOf: the zero Value for a nil interface, else the (not
\* addressable) dynamic value
ValueOf(a) == IF a = Nil THEN Invalid ELSE Val(a.typ, a.loc, FALSE, FALSE)

Kind(v) == TypeTab[v.typ].kind

\* Value.IsNil of a pointer, interface, slice, map or func
IsNil(v) == Mem[v.loc] = 0

\* Value.Pointer of a slice (its data) or a map
Pointer(v) == Mem[v.loc]

\* Value.Len of an array, slice or map
ValLen(v) ==
    CASE Kind(v) = "Array" -> TypeTab[v.typ].len
      [] Kind(v) = "Slice" -> Mem[v.loc + 1]
      [] Kind(v) = "Map"   -> IF IsNil(v) THEN 0
                              ELSE Cardinality(DOMAIN MapTab[Mem[v.loc]])

\* Value.NumField
NumField(v) == Len(TypeTab[v.typ].fields)

\* Value.Elem of a pointer (addressable pointee) or an interface (the
\* dynamic value); the zero Value when nil
Elem(v) ==
    IF IsNil(v) THEN Invalid
    ELSE IF Kind(v) = "Ptr"
         THEN Val(TypeTab[v.typ].elem, Mem[v.loc], TRUE, v.ro)
         ELSE Val(DynTypes[Mem[v.loc]], Mem[v.loc + 1], FALSE, v.ro)

\* Value.Index(i), i from 0, of an array or a slice (slice elements are
\* always addressable)
Index(v, i) ==
    LET e == TypeTab[v.typ].elem IN
    IF Kind(v) = "Array"
    THEN Val(e, v.loc + i * SizeOf(e), v.addr, v.ro)
    ELSE Val(e, Mem[v.loc] + i * SizeOf(e), TRUE, v.ro)

\* Value.Field(i), i from 0
Field(v, i) ==
    LET f == TypeTab[v.typ].fields[i + 1] IN
    Val(f.typ, v.loc + FieldOffset(v.typ, i + 1), v.addr, v.ro \/ ~f.exported)

\* Value.MapKeys
MapKeys(v) == IF IsNil(v) THEN {} ELSE DOMAIN MapTab[Mem[v.loc]]

\* Value.MapIndex(k): the zero Value when the key is missing
MapIndex(v, k) ==
    IF k \in MapKeys(v)
    THEN Val(TypeTab[v.typ].elem, MapTab[Mem[v.loc]][k], FALSE, v.ro)
    ELSE Invalid

CanInterface(v) == ~v.ro

(***************************************************************************)
(* Comparisons: the registry, AddFunc and AddFuncs                         *)
(***************************************************************************)
TypeNames == DOMAIN TypeTab

\* Comparisons is a map: "" stands for a type without an entry
EmptyRegistry == [t \in TypeNames |-> ""]

Fn(ins, outs, id) == [kind |-> "Func", ins |-> ins, outs |-> outs, fn |-> id]

\* func(a, b int) int { return a*a - b*b }
FnSq == Fn(<<"int", "int">>, <<"int">>, "sq")

\* func(a, b int) int { return b - a }
FnRev == Fn(<<"int", "int">>, <<"int">>, "rev")

\* func(a, b Node) int { return a.Val - b.Val }
FnVal == Fn(<<"Node", "Node">>, <<"int">>, "val")

\* what AddFunc may be handed: the three comparison functions, the int 1,
\* func(int) int, func(int, int) (int, int), func(int, bool) int,
\* func(int, int) bool, and the untyped nil
CompFuncs ==
    { FnSq, FnRev, FnVal,
      [kind |-> "Int", ins |-> <<>>, outs |-> <<>>, fn |-> ""],
      Fn(<<"int">>, <<"int">>, "one"),
      Fn(<<"int", "int">>, <<"int", "int">>, "two"),
      Fn(<<"int", "bool">>, <<"int">>, "mixed"),
      Fn(<<"int", "int">>, <<"bool">>, "less"),
      [kind |-> "Invalid", ins |-> <<>>, outs |-> <<>>, fn |-> ""] }

\* the result of AddFunc: the registry, and the error ("" is nil, "panic"
\* the panic of reflect.Value.Type on the zero Value)
AddFunc(c, f) ==
    IF f.kind = "Invalid" THEN [reg |-> c, err |-> "panic"]
    ELSE IF f.kind # "Func" THEN [reg |-> c, err |-> "expected func"]
    ELSE IF Len(f.ins) # 2 THEN [reg |-> c, err |-> "expected two 'in' params"]
    ELSE IF Len(f.outs) # 1 THEN [reg |-> c, err |-> "expected one 'out' param"]
    ELSE IF f.ins[1] # f.ins[2]
         THEN [reg |-> c, err |-> "expected arg 1 and 2 to have same type"]
    ELSE IF f.outs[1] # "int" THEN [reg |-> c, err |-> "expected bool return"]
    ELSE [reg |-> [c EXCEPT ![f.ins[1]] = f.fn], err |-> ""]

RECURSIVE AddFuncs(_, _)
\* AddFunc on each function in order, returning at the first error
AddFuncs(c, funcs) ==
    IF funcs = <<>> THEN [reg |-> c, err |-> ""]
    ELSE LET r == AddFunc(c, Head(funcs)) IN
         IF r.err # "" THEN r ELSE AddFuncs(r.reg, Tail(funcs))

\* fv.Call: what the registered function returns on the two values
CallFn(fn, v1, v2) ==
    CASE fn = "sq"  -> Mem[v1.loc] * Mem[v1.loc] - Mem[v2.loc] * Mem[v2.loc]
      [] fn = "rev" -> Mem[v2.loc] - Mem[v1.loc]
      [] fn = "val" -> Mem[v1.loc] - Mem[v2.loc]

(***************************************************************************)
(* The comparison helpers                                                  *)
(***************************************************************************)
compareBool(b1, b2) ==
    IF b1 THEN (IF ~b2 THEN 1 ELSE 0)
    ELSE IF b2 THEN -1 ELSE 0

compareInt64(i1, i2) ==
    IF i1 < i2 THEN -1 ELSE IF i1 > i2 THEN 1 ELSE 0

\* compareInterface: v1 == v2 of the two values' words (it panics otherwise)
InterfaceEqual(v1, v2) == Mem[v1.loc] = Mem[v2.loc]

\* the kinds whose addresses are tracked in visited
hard(k) == k \in {"Array", "Map", "Slice", "Struct"}
\* faulty variant of TopTypeMismatch: DeepCompare without its type check
TopTypeMismatchNever(v1, v2) == FALSE

\* DeepCompare's type check of the two arguments
TopTypeMismatch(v1, v2) == v1.typ # v2.typ

\* deepValueCompare's type check of the two values of a step
TypeMismatch(v1, v2) == v1.typ # v2.typ

\* the registry lookup of a step: the function's name, "" when there is none
Lookup(c, v1) == c[v1.typ]

\* (v1.IsNil() || v1.Len() == 0) of a slice or a map
NilOrEmpty(v) == IsNil(v) \/ ValLen(v) = 0
\* faulty variant of LenDiff: the lengths subtracted the other way round
LenDiffSwapped(v1, v2) == ValLen(v2) - ValLen(v1)

\* res := v1.Len() - v2.Len()
LenDiff(v1, v2) == ValLen(v1) - ValLen(v2)
\* faulty variant of LoopStop: only a positive result ends the loop
LoopStopPositive(r) == r > 0

\* the loops over elements and fields return the first res != 0
LoopStop(r) == r # 0

(***************************************************************************)
(* visited: map[visit]int, as the set of its entries                       *)
(***************************************************************************)
NoVisit == [a1 |-> 0, a2 |-> 0, typ |-> ""]

visit(addr1, addr2, typ) == [a1 |-> addr1, a2 |-> addr2, typ |-> typ]

Seen(vis, k) == \E e \in vis : e.k = k

Cached(vis, k) == (CHOOSE e \in vis : e.k = k).r

Store(vis, k, r) == {e \in vis : e.k # k} \cup {[k |-> k, r |-> r]}

(***************************************************************************)
(* Frames of deepValueCompare, the panic in flight, the outcome of a call  *)
(***************************************************************************)
\* pc: "enter" before the checks of lines 124-172, "body" in the switch,
\* "ret" with the result res set and the deferred functions still to run.
\* i counts the component comparisons started, cur is the index (or map
\* key) of the one in progress, hist the finished ones with their results;
\* hasV says the deferred store into visited is registered (key vk).
\* how names the return statement that set res.
NewFrame(v1, v2) ==
    [v1 |-> v1, v2 |-> v2, pc |-> "enter", i |-> 0, cur |-> 0, hist |-> <<>>,
     hasV |-> FALSE, vk |-> NoVisit, swapped |-> FALSE, res |-> 0, how |-> ""]

NoPanic == [active |-> FALSE, kind |-> "", path |-> <<>>, depth |-> 0, via |-> ""]

NoOut == [st |-> "none", res |-> 0, kind |-> "", path |-> <<>>, depth |-> 0, via |-> ""]

Returned(r) == [NoOut EXCEPT !.st = "returned", !.res = r]

Panicked(p) ==
    [st |-> "panic", res |-> 0, kind |-> p.kind, path |-> p.path,
     depth |-> p.depth, via |-> p.via]

NoCall ==
    [op |-> "", a1 |-> Nil, a2 |-> Nil, funcs |-> <<>>, before |-> EmptyRegistry,
     err |-> ""]

Top == stack[Len(stack)]

SetTop(f) == [stack EXCEPT ![Len(stack)] = f]

Ret(f, r, how) == [f EXCEPT !.pc = "ret", !.res = r, !.how = how]

\* the kind of the value whose step called the step on top of the stack
ParentKind == IF Len(stack) > 1 THEN Kind(stack[Len(stack) - 1].v1) ELSE ""

Running == phase = "running" /\ ~pnc.active /\ stack # <<>>

\* the step on top of the stack goes on within its frame
Goto(f) ==
    /\ stack' = SetTop(f)
    /\ UNCHANGED <<registry, phase, call, visited, pnc, out, first>>

\* the step on top of the stack panics
Raise(kind) ==
    /\ pnc' = [active |-> TRUE, kind |-> kind, path |-> <<>>,
               depth |-> Len(stack), via |-> ParentKind]
    /\ UNCHANGED <<registry, phase, call, stack, visited, out, first>>

\* c.deepValueCompare(c1, c2, visited, depth+1) for component idx; the
\* goroutine dies of stack overflow at MaxDepth frames
Descend(f, idx, c1, c2) ==
    /\ IF Len(stack) < MaxDepth
       THEN /\ stack' = Append(SetTop([f EXCEPT !.i = @ + 1, !.cur = idx]),
                               NewFrame(c1, c2))
            /\ UNCHANGED <<phase, out>>
       ELSE /\ phase' = "crashed"
            /\ out' = [NoOut EXCEPT !.st = "overflow"]
            /\ UNCHANGED stack
    /\ UNCHANGED <<registry, call, visited, pnc, first>>

\* the result of the last component comparison
Last(f) == f.hist[Len(f.hist)].r

(***************************************************************************)
(* Initial state and the calls                                             *)
(***************************************************************************)
Init ==
    /\ registry = EmptyRegistry
    /\ phase = "ready"
    /\ call = NoCall
    /\ stack = <<>>
    /\ visited = {}
    /\ pnc = NoPanic
    /\ out = NoOut
    /\ first = NoOut

FuncSeqs == UNION {[1..n -> CompFuncs] : n \in 0..MaxFuncs}

\* c.AddFuncs(funcs...): it returns its error to the caller, or panics
AddFuncsCall ==
    /\ phase = "ready"
    /\ \E funcs \in FuncSeqs :
         LET r == AddFuncs(registry, funcs) IN
         /\ registry' = r.reg
         /\ call' = [NoCall EXCEPT !.op = "AddFuncs", !.funcs = funcs,
                                   !.before = registry, !.err = r.err]
         /\ phase' = IF r.err = "panic" THEN "aborted" ELSE "added"
    /\ UNCHANGED <<stack, visited, pnc, out, first>>

\* the caller of AddFuncs goes on with the registry as AddFuncs left it
AddFuncsReturn ==
    /\ phase = "added"
    /\ phase' = "ready"
    /\ call' = NoCall
    /\ UNCHANGED <<registry, stack, visited, pnc, out, first>>

\* the body of DeepCompare up to the call of deepValueCompare
Begin(a1, a2) ==
    LET nils == compareBool(a1 = Nil, a2 = Nil)
        v1 == ValueOf(a1)
        v2 == ValueOf(a2)
    IN
    /\ visited' = {}
    /\ pnc' = NoPanic
    /\ IF nils # 0
       THEN stack' = <<>> /\ phase' = "finished" /\ out' = Returned(nils)
       ELSE IF ~v1.valid
       \* v1.Type() of the zero Value panics
       THEN /\ stack' = <<>> /\ phase' = "finished"
            /\ out' = [NoOut EXCEPT !.st = "panic", !.kind = "reflect"]
       ELSE IF TopTypeMismatch(v1, v2)
       THEN /\ stack' = <<>> /\ phase' = "finished"
            /\ out' = [NoOut EXCEPT !.st = "panic", !.kind = "types"]
       ELSE /\ stack' = <<NewFrame(v1, v2)>> /\ phase' = "running"
            /\ out' = [NoOut EXCEPT !.st = "running"]

\* c.DeepCompare(a1, a2)
DeepCompareCall ==
    /\ phase = "ready"
    /\ \E a1 \in Inputs, a2 \in Inputs :
         /\ call' = [NoCall EXCEPT !.op = "DeepCompare", !.a1 = a1, !.a2 = a2]
         /\ Begin(a1, a2)
    /\ first' = NoOut
    /\ UNCHANGED registry

\* c.DeepCompare(a2, a1) after c.DeepCompare(a1, a2) has ended, as the
\* table test does with each of its entries
SwapCall ==
    /\ phase = "finished"
    /\ first.st = "none"
    /\ call' = [call EXCEPT !.a1 = call.a2, !.a2 = call.a1]
    /\ Begin(call.a2, call.a1)
    /\ first' = out
    /\ UNCHANGED registry

(***************************************************************************)
(* deepValueCompare, one step of the frame on top of the stack             *)
(***************************************************************************)
\* lines 124-172: validity, type identity, the registry, and the address
\* and visited short circuits of the hard kinds
Enter ==
    /\ Running
    /\ Top.pc = "enter"
    /\ LET f == Top
           v1 == f.v1
           v2 == f.v2
           fn == Lookup(registry, v1)
           swapped == v1.loc > v2.loc
           addr1 == IF swapped THEN v2.loc ELSE v1.loc
           addr2 == IF swapped THEN v1.loc ELSE v2.loc
           v == visit(addr1, addr2, v1.typ)
       IN
       IF ~v1.valid \/ ~v2.valid
       THEN Goto(Ret(f, compareBool(v1.valid, v2.valid), "invalid"))
       ELSE IF TypeMismatch(v1, v2)
       THEN Raise("types")
       ELSE IF fn # ""
       \* fv.Call panics on a value obtained through an unexported field
       THEN IF v1.ro \/ v2.ro
            THEN Raise("reflect")
            ELSE Goto(Ret(f, CallFn(fn, v1, v2), "override"))
       ELSE IF v1.addr /\ v2.addr /\ hard(Kind(v1))
       THEN IF addr1 = addr2
            THEN Goto(Ret(f, 0, "sameaddr"))
            ELSE IF Seen(visited, v)
            THEN Goto(Ret(f, Cached(visited, v), "visited"))
            ELSE Goto([f EXCEPT !.pc = "body", !.hasV = TRUE, !.vk = v,
                                !.swapped = swapped])
       ELSE Goto([f EXCEPT !.pc = "body"])

InBody(k) == Running /\ Top.pc = "body" /\ Kind(Top.v1) = k

\* case reflect.Array
CaseArray ==
    /\ InBody("Array")
    /\ LET f == Top IN
       IF f.hist # <<>> /\ LoopStop(Last(f))
       THEN Goto(Ret(f, Last(f), "element"))
       ELSE IF f.i < ValLen(f.v1)
       THEN Descend(f, f.i, Index(f.v1, f.i), Index(f.v2, f.i))
       ELSE Goto(Ret(f, 0, "end"))

\* case reflect.Slice
CaseSlice ==
    /\ InBody("Slice")
    /\ LET f == Top IN
       IF f.i = 0 /\ NilOrEmpty(f.v1) # NilOrEmpty(f.v2)
       THEN Goto(Ret(f, 0, "emptiness"))
       ELSE IF f.i = 0 /\ LenDiff(f.v1, f.v2) # 0
       THEN Goto(Ret(f, LenDiff(f.v1, f.v2), "len"))
       ELSE IF f.i = 0 /\ Pointer(f.v1) = Pointer(f.v2)
       THEN Goto(Ret(f, 0, "samepointer"))
       ELSE IF f.hist # <<>> /\ LoopStop(Last(f))
       THEN Goto(Ret(f, Last(f), "element"))
       ELSE IF f.i < ValLen(f.v1)
       THEN Descend(f, f.i, Index(f.v1, f.i), Index(f.v2, f.i))
       ELSE Goto(Ret(f, 0, "end"))

\* case reflect.Interface
CaseInterface ==
    /\ InBody("Interface")
    /\ LET f == Top
           nils == compareBool(~IsNil(f.v1), ~IsNil(f.v2))
       IN
       IF f.i = 0 /\ nils # 0
       THEN Goto(Ret(f, nils, "nil"))
       ELSE IF f.i = 0
       THEN Descend(f, 0, Elem(f.v1), Elem(f.v2))
       ELSE Goto(Ret(f, Last(f), "elem"))

\* case reflect.Ptr
CasePtr ==
    /\ InBody("Ptr")
    /\ LET f == Top IN
       IF f.i = 0
       THEN Descend(f, 0, Elem(f.v1), Elem(f.v2))
       ELSE Goto(Ret(f, Last(f), "elem"))

\* case reflect.Struct
CaseStruct ==
    /\ InBody("Struct")
    /\ LET f == Top IN
       IF f.hist # <<>> /\ LoopStop(Last(f))
       THEN Goto(Ret(f, Last(f), "element"))
       ELSE IF f.i < NumField(f.v1)
       THEN Descend(f, f.i, Field(f.v1, f.i), Field(f.v2, f.i))
       ELSE Goto(Ret(f, 0, "end"))

\* case reflect.Map: MapKeys yields the keys of v1 in an unspecified order
CaseMap ==
    /\ InBody("Map")
    /\ LET f == Top
           left == MapKeys(f.v1) \ {f.hist[j].i : j \in 1..Len(f.hist)}
       IN
       IF f.i = 0 /\ NilOrEmpty(f.v1) # NilOrEmpty(f.v2)
       THEN Goto(Ret(f, 0, "emptiness"))
       ELSE IF f.i = 0 /\ LenDiff(f.v1, f.v2) # 0
       THEN Goto(Ret(f, LenDiff(f.v1, f.v2), "len"))
       ELSE IF f.i = 0 /\ Pointer(f.v1) = Pointer(f.v2)
       THEN Goto(Ret(f, 0, "samepointer"))
       ELSE IF f.hist # <<>> /\ LoopStop(Last(f))
       THEN Goto(Ret(f, Last(f), "element"))
       ELSE IF left # {}
       THEN \E k \in left : Descend(f, k, MapIndex(f.v1, k), MapIndex(f.v2, k))
       ELSE Goto(Ret(f, 0, "end"))

\* case reflect.Func
CaseFunc ==
    /\ InBody("Func")
    /\ LET f == Top IN
       IF ~IsNil(f.v1) /\ ~IsNil(f.v2)
       THEN Raise("func")
       ELSE Goto(Ret(f, compareBool(~IsNil(f.v1), ~IsNil(f.v2)), "func"))

\* case reflect.Bool
CaseBool ==
    /\ InBody("Bool")
    /\ LET f == Top IN
       Goto(Ret(f, compareBool(Mem[f.v1.loc] = 1, Mem[f.v2.loc] = 1), "bool"))

\* case reflect.Int, ...
CaseInt ==
    /\ InBody("Int")
    /\ LET f == Top IN
       Goto(Ret(f, compareInt64(Mem[f.v1.loc], Mem[f.v2.loc]), "int"))

\* default: the kinds without an order (complex128 here)
CaseDefault ==
    /\ InBody("Complex128")
    /\ LET f == Top IN
       IF ~CanInterface(f.v1) \/ ~CanInterface(f.v2)
       THEN Raise("unexported")
       ELSE IF InterfaceEqual(f.v1, f.v2)
       THEN Goto(Ret(f, 0, "equal"))
       ELSE Raise("uncomparable")

\* makeUsefulPanic(v): an unexportedTypePanic gets v's type prepended
makeUsefulPanic(v, p) ==
    IF p.kind = "unexported" THEN [p EXCEPT !.path = <<v.typ>> \o @] ELSE p

\* the deferred store into visited, with the frame's named result res
Deferred(f) ==
    IF f.hasV THEN Store(visited, f.vk, IF f.swapped THEN -f.res ELSE f.res)
    ELSE visited

\* the step on top of the stack returns res: its deferred functions run and
\* its caller (a step, or DeepCompare) receives the result
Return ==
    /\ Running
    /\ Top.pc = "ret"
    /\ LET f == Top
           n == Len(stack)
       IN
       /\ visited' = Deferred(f)
       /\ IF n = 1
          THEN /\ stack' = <<>>
               /\ phase' = "finished"
               /\ out' = Returned(f.res)
          ELSE /\ stack' = [SubSeq(stack, 1, n - 1) EXCEPT
                              ![n - 1].hist = Append(@, [i |-> stack[n - 1].cur,
                                                         r |-> f.res])]
               /\ UNCHANGED <<phase, out>>
    /\ UNCHANGED <<registry, call, pnc, first>>

\* a panic leaves the step on top of the stack: its deferred functions run
\* (the store into visited, then makeUsefulPanic), and it reaches the
\* caller of DeepCompare when no step is left
Unwind ==
    /\ phase = "running"
    /\ pnc.active
    /\ stack # <<>>
    /\ LET f == Top
           n == Len(stack)
           p == makeUsefulPanic(f.v1, pnc)
       IN
       /\ visited' = Deferred(f)
       /\ stack' = SubSeq(stack, 1, n - 1)
       /\ IF n = 1
          THEN phase' = "finished" /\ out' = Panicked(p) /\ pnc' = NoPanic
          ELSE pnc' = p /\ UNCHANGED <<phase, out>>
    /\ UNCHANGED <<registry, call, first>>

Next ==
    \/ AddFuncsCall
    \/ AddFuncsReturn
    \/ DeepCompareCall
    \/ SwapCall
    \/ Enter
    \/ CaseArray
    \/ CaseSlice
    \/ CaseInterface
    \/ CasePtr
    \/ CaseStruct
    \/ CaseMap
    \/ CaseFunc
    \/ CaseBool
    \/ CaseInt
    \/ CaseDefault
    \/ Return
    \/ Unwind

Spec == Init /\ [][Next]_vars

(***************************************************************************)
(* Properties                                                              *)
(***************************************************************************)
Sign(x) == IF x < 0 THEN -1 ELSE IF x > 0 THEN 1 ELSE 0

Frames == {stack[j] : j \in 1..Len(stack)}

\* a DeepCompare call has ended by returning or panicking
Ended == call.op = "DeepCompare" /\ phase = "finished"

\* both calls of a pair, DeepCompare(a, b) then DeepCompare(b, a), have ended
BothEnded == Ended /\ first.st # "none"

\* C1 (antisymmetry): whenever DeepCompare(a, b) and DeepCompare(b, a) both
\* return, the sign of one result is the negation of the sign of the other.
Antisymmetry ==
    (BothEnded /\ first.st = "returned" /\ out.st = "returned")
        => Sign(out.res) = -Sign(first.res)

\* the pointers to the two nodes whose Next field points back to the node
CyclicArgs == {Boxed("*Node", 120), Boxed("*Node", 121)}

\* a step is under way for an address pair and type that a step below it on
\* the stack is still comparing: visited holds nothing for it
Reentered ==
    \E i \in 1..Len(stack), j \in 1..Len(stack) :
        /\ i < j
        /\ stack[i].hasV /\ stack[j].hasV
        /\ stack[i].vk = stack[j].vk

\* C2 (cycle termination): DeepCompare of a self-referential struct with
\* itself or with an isomorphic one at another address returns 0, and no
\* step re-enters an address pair that is still being compared.
CycleTermination ==
    (call.op = "DeepCompare" /\ call.a1 \in CyclicArgs /\ call.a2 \in CyclicArgs)
        => /\ ~Reentered
           /\ phase # "crashed"
           /\ (phase = "finished" => out = Returned(0))

\* C3 (reflexivity): DeepCompare(a, a) ends, and returns 0, for every a.
Reflexivity ==
    (call.op = "DeepCompare" /\ call.a1 = call.a2)
        => /\ phase # "crashed"
           /\ (phase = "finished" => out = Returned(0))

\* C4 (top-level nil): DeepCompare(nil, x) returns a negative and
\* DeepCompare(x, nil) a positive result for every non-nil x.
TopLevelNilFirst ==
    Ended =>
        /\ (call.a1 = Nil /\ call.a2 # Nil) => (out.st = "returned" /\ out.res < 0)
        /\ (call.a1 # Nil /\ call.a2 = Nil) => (out.st = "returned" /\ out.res > 0)

\* C5 as stated (type mismatch): two non-nil arguments of different dynamic
\* types make DeepCompare abort with a type mismatch, and two arguments of
\* the same type never do, whatever they contain.
TypeMismatchOnlyAtTop ==
    Ended =>
        /\ (call.a1 # Nil /\ call.a2 # Nil /\ call.a1.typ # call.a2.typ)
              => (out.st = "panic" /\ out.kind = "types")
        /\ (call.a1.typ = call.a2.typ)
              => ~(out.st = "panic" /\ out.kind = "types")

\* C5 as amended: two non-nil arguments of different dynamic types make
\* DeepCompare abort with a type mismatch before any recursive step; with
\* arguments of the same type no type mismatch arises at the top level, and
\* one arises below it exactly where the recursion reaches two non-nil
\* interface values that hold values of different types: no step gets past
\* its type check with two valid values of different types.
TypeMismatchAmended ==
    /\ Ended =>
         /\ (call.a1 # Nil /\ call.a2 # Nil /\ call.a1.typ # call.a2.typ)
               => (out.st = "panic" /\ out.kind = "types" /\ out.depth = 0)
         /\ (call.a1.typ = call.a2.typ /\ out.st = "panic" /\ out.kind = "types")
               => (out.depth > 1 /\ out.via = "Interface")
    /\ (pnc.active /\ pnc.kind = "types")
         => (pnc.depth > 1 /\ pnc.via = "Interface")
    /\ \A f \in Frames :
         (f.v1.valid /\ f.v2.valid /\ f.v1.typ # f.v2.typ)
            => /\ f.pc = "enter"
               /\ f = Top
               /\ ParentKind = "Interface"

\* C5 witness: a call on two arguments of the same type has ended in a type
\* mismatch raised below the top level
TypeMismatchNested ==
    /\ Ended
    /\ call.a1.typ = call.a2.typ
    /\ out.st = "panic" /\ out.kind = "types" /\ out.depth > 1

\* the step of frame f is on two valid values of one type for which the
\* registry holds a function
Overridden(f) ==
    /\ f.v1.valid /\ f.v2.valid
    /\ f.v1.typ = f.v2.typ
    /\ registry[f.v1.typ] # ""

\* C6 (override precedence): a step on two valid values of a type the
\* registry holds a function for returns exactly what the function returns
\* on them, and applies no structural rule: it compares no component,
\* registers no visited entry, and does not panic.
OverridePrecedence ==
    /\ \A f \in Frames :
         (Overridden(f) /\ f.pc # "enter")
            => /\ f.pc = "ret"
               /\ f.how = "override"
               /\ f.res = CallFn(registry[f.v1.typ], f.v1, f.v2)
               /\ f.hist = <<>> /\ f.i = 0
               /\ ~f.hasV
    /\ (pnc.active /\ pnc.depth = Len(stack)) => ~Overridden(Top)

\* the step of frame f is on a value obtained through an unexported field,
\* with no function registered for its type
Unexported(f) ==
    /\ f.v1.valid /\ f.v2.valid
    /\ f.v1.ro
    /\ registry[f.v1.typ] = ""

\* C7 (unexported fields): a step that reaches an unexported field without
\* an override never returns a signal; DeepCompare then aborts with an
\* unexported-field panic whose payload lists the types from the outermost
\* compared value down to the field.
UnexportedFieldsAbort ==
    /\ \A f \in Frames : Unexported(f) => f.pc # "ret"
    /\ (Ended /\ out.st = "panic" /\ out.kind = "unexported")
         => /\ Len(out.path) = out.depth
            /\ out.path[1] = call.a1.typ

\* the step of frame f is on two valid values of one type with no function
\* registered for it
Structural(f) ==
    /\ f.v1.valid /\ f.v2.valid
    /\ f.v1.typ = f.v2.typ
    /\ registry[f.v1.typ] = ""

\* a slice or map value is nil or has no element
Emptyish(v) == Mem[v.loc] = 0 \/ ValLen(v) = 0

\* C8 (nil, empty and length of slices and maps): without an override, a
\* step on two slices or two maps returns 0 when both or exactly one of them
\* is nil or empty, and when both are non-empty with different lengths it
\* returns a result with the sign of len(v1) - len(v2); in neither case is
\* an element compared.
NilEmptyLengthRule ==
    \A f \in Frames :
        (Structural(f) /\ Kind(f.v1) \in {"Slice", "Map"})
           => LET short == Emptyish(f.v1) \/ Emptyish(f.v2)
                  uneven == ValLen(f.v1) # ValLen(f.v2)
              IN
              /\ (short \/ uneven) => (f.i = 0 /\ f.hist = <<>>)
              /\ (f.pc = "ret" /\ short) => f.res = 0
              /\ (f.pc = "ret" /\ ~short /\ uneven)
                    => Sign(f.res) = Sign(ValLen(f.v1) - ValLen(f.v2))

\* C8 witness: a step on two non-empty maps of different lengths is about
\* to return a negative result
ShorterMapFirst ==
    /\ stack # <<>>
    /\ Structural(Top) /\ Kind(Top.v1) = "Map"
    /\ Top.pc = "ret"
    /\ ~Emptyish(Top.v1) /\ ~Emptyish(Top.v2)
    /\ ValLen(Top.v1) < ValLen(Top.v2)
    /\ Top.res < 0

\* the number of components of an array, a slice or a struct
NumComponents(v) == IF Kind(v) = "Struct" THEN NumField(v) ELSE ValLen(v)

\* the step compares components one by one: an array, a struct, or a slice
\* that is non-empty, as long as the other and on other backing storage
Componentwise(f) ==
    /\ Structural(f)
    /\ \/ Kind(f.v1) \in {"Array", "Struct"}
       \/ /\ Kind(f.v1) = "Slice"
          /\ ~Emptyish(f.v1) /\ ~Emptyish(f.v2)
          /\ ValLen(f.v1) = ValLen(f.v2)
          /\ Mem[f.v1.loc] # Mem[f.v2.loc]

\* C9 (lexicographic order): without an override, a step on two arrays, two
\* structs or two such slices compares the component pairs in index (field)
\* order, stops at the first pair whose result is not 0 and returns that
\* result; it returns 0 when all pairs compared as 0 (or when the two values
\* are the same storage or an address pair already in visited, where no
\* component is compared).
LexicographicOrder ==
    \A f \in Frames :
        Componentwise(f)
           => /\ \A j \in 1..Len(f.hist) : f.hist[j].i = j - 1
              /\ \A j \in 1..(Len(f.hist) - 1) : f.hist[j].r = 0
              /\ f.i \in {Len(f.hist), Len(f.hist) + 1}
              /\ f.i > Len(f.hist) => \A j \in 1..Len(f.hist) : f.hist[j].r = 0
              /\ f.pc = "ret"
                    => /\ f.i = Len(f.hist)
                       /\ IF f.hist # <<>> /\ Last(f) # 0
                          THEN f.res = Last(f)
                          ELSE /\ f.res = 0
                               /\ \/ Len(f.hist) = NumComponents(f.v1)
                                  \/ f.hist = <<>> /\ f.how \in {"sameaddr", "visited"}

\* C9 witness: a step on two arrays is about to return the nonzero result
\* of its second element pair, the first having compared as 0
SecondElementDecides ==
    /\ stack # <<>>
    /\ Componentwise(Top) /\ Kind(Top.v1) = "Array"
    /\ Top.pc = "ret"
    /\ Len(Top.hist) = 2
    /\ Top.hist[1].r = 0 /\ Top.hist[2].r # 0
    /\ Top.res = Top.hist[2].r

\* f is a func(A, A) int
IsComparison(f) ==
    /\ f.kind = "Func"
    /\ Len(f.ins) = 2 /\ Len(f.outs) = 1
    /\ f.ins[1] = f.ins[2]
    /\ f.outs[1] = "int"

\* the functions of funcs before the first that is no func(A, A) int
Accepted(funcs) ==
    {j \in 1..Len(funcs) : \A k \in 1..j : IsComparison(funcs[k])}

\* C10 (registration sequence): AddFuncs registers the functions before the
\* first that is no func(A, A) int, each type mapped to the last of them
\* for it and every other entry left as it was, and returns nil when all
\* were registered and otherwise the error of the first rejected function.
RegistrationSequence ==
    (call.op = "AddFuncs")
        => LET funcs == call.funcs
               acc == Accepted(funcs)
               For(t) == {j \in acc : funcs[j].ins[1] = t}
               Latest(t) == CHOOSE j \in For(t) : \A k \in For(t) : k <= j
           IN
           /\ \A t \in TypeNames :
                registry[t] = IF For(t) = {} THEN call.before[t]
                              ELSE funcs[Latest(t)].fn
           /\ (Cardinality(acc) = Len(funcs)) => call.err = ""
           /\ (Cardinality(acc) < Len(funcs)) => call.err \notin {"", "panic"}

\* the causes of a panic the documentation of DeepCompare names: mismatched
\* types, an unexported field, two non-nil functions, unequal values of a
\* type without an order
NamedCauses == {"types", "unexported", "func", "uncomparable"}

\* C11 (abort completeness): a DeepCompare call aborts only with mismatched
\* types, on an unexported field, on two non-nil functions or on unequal
\* values of a type without an order; on every other input (two nil
\* arguments and cyclic values included) it ends and returns a signal.
AbortCompleteness ==
    (call.op = "DeepCompare")
        => /\ phase # "crashed"
           /\ (phase = "finished" /\ out.st = "panic") => out.kind \in NamedCauses
           /\ pnc.active => pnc.kind \in NamedCauses

\* the step of frame f has received a nonzero result from a component
Decided(f) == f.hist # <<>> /\ Last(f) # 0

====
